---------------------------- MODULE Spec2Model ----------------------------
(***************************************************************************)
(* State-machine model of NeonTycoon::GameEngine (src/core_logic.cpp).     *)
(*                                                                         *)
(* Number representation.  The engine keeps money, totalEarnings and the   *)
(* cached income rate in C++ doubles.  Every amount the engine can produce *)
(* from the inputs drawn here is a multiple of 1/400 (an income rate is a  *)
(* multiple of 1/20 because of the 5% auto_click bonus, and a click adds   *)
(* 1 + rate * 0.05), so                                                    *)
(*   - a rate is an integer number of 1/RateUnits per second,              *)
(*   - an amount of money is a record [w, f] = w + f/MoneyUnits with       *)
(*     0 <= f < MoneyUnits (w is the floor; it may be negative).           *)
(* Sums are exact in this representation; the rounding of binary64 sums of *)
(* such amounts is not modelled.  The one place where binary64 rounding    *)
(* changes an integer result, the floor in getBuildingCost, is modelled    *)
(* (Binary64RoundsBelow).  NaN and infinities are outside the model.       *)
(* startTime and lastSaveTime are never read and are left out.             *)
(*                                                                         *)
(* Bounds.  click is disabled after MaxClicks clicks, a credit that would  *)
(* take totalEarnings past MaxEarnings is disabled, and a purchase that    *)
(* would succeed with MaxCount units already owned is disabled.            *)
(***************************************************************************)
EXTENDS Integers, Sequences, FiniteSets, TLC

(***************************************************************************)
(* Bounds of the model.                                                    *)
(***************************************************************************)
MaxClicks == 16
MaxCount == 1
MaxEarnings == 250000000
MaxOwned == 2
MaxRoot == 6

(***************************************************************************)
(* Fixed-point units.                                                      *)
(***************************************************************************)
RateUnits == 20
MoneyUnits == RateUnits * RateUnits

(***************************************************************************)
(* GameData: the catalogs.  Sequence position = id + 1.                    *)
(***************************************************************************)
Buildings ==
    << [id |-> 0, baseCost |-> 15,       income |-> 1],
       [id |-> 1, baseCost |-> 100,      income |-> 5],
       [id |-> 2, baseCost |-> 1100,     income |-> 22],
       [id |-> 3, baseCost |-> 12000,    income |-> 85],
       [id |-> 4, baseCost |-> 130000,   income |-> 350],
       [id |-> 5, baseCost |-> 1500000,  income |-> 1500],
       [id |-> 6, baseCost |-> 25000000, income |-> 8000] >>

Skills ==
    << [id |-> "auto_click", cost |-> 5],
       [id |-> "cheaper",    cost |-> 10],
       [id |-> "offline",    cost |-> 15],
       [id |-> "hack_freq",  cost |-> 25] >>

NumBuildings == Len(Buildings)

CatalogSkillIds == {Skills[i].id : i \in 1..Len(Skills)}

(***************************************************************************)
(* Inputs of the operations.                                               *)
(***************************************************************************)
BuildingInputs == {0 - 1, 0, NumBuildings - 1, NumBuildings}
SkillInputs == {"auto_click", "cheaper", "no_such_skill"}
BigDelta == 120 * 1000000
DeltaTimes == {0, BigDelta}

(* globalIncomePerSec is not initialised by the constructor and is read by *)
(* click() before the first update(): values the indeterminate double may *)
(* hold, in 1/RateUnits per second (-40.0 and 0.0).                        *)
UninitRates == {0 - 800, 0}

(***************************************************************************)
(* Money arithmetic.                                                       *)
(***************************************************************************)
Norm(w, f) == [w |-> w + (f \div MoneyUnits), f |-> f % MoneyUnits]

Whole(n) == [w |-> n, f |-> 0]

Plus(m, a) == Norm(m.w + a.w, m.f + a.f)

Minus(m, a) == Norm(m.w - a.w, m.f - a.f)

(* m >= c in the reals, c an integer *)
AtLeast(m, c) == m.w >= c

(* m < c in the reals, c an integer *)
Below(m, c) == m.w < c

VARIABLES money, neuralData, buildingCounts, ownedSkills,
          totalClicks, totalEarnings, incomeMultiplier, globalIncomePerSec,
          call

vars == << money, neuralData, buildingCounts, ownedSkills,
           totalClicks, totalEarnings, incomeMultiplier, globalIncomePerSec,
           call >>

(***************************************************************************)
(* hasSkill: find, then the stored flag.                                   *)
(***************************************************************************)
HasSkillIn(owned, skillId) == skillId \in DOMAIN owned /\ owned[skillId]

hasSkill(skillId) == HasSkillIn(ownedSkills, skillId)


(***************************************************************************)
(* getBuildingCost: floor(baseCost * pow(1.15, count) * discount).         *)
(*                                                                         *)
(* A value v >= 0 is [i, f] = i + f/CostDen, 0 <= f < CostDen; CostDen is  *)
(* a common denominator of baseCost * (23/20)^n * (9/10) for n <= 4.       *)
(* Scale multiplies exactly by num/den.                                    *)
(***************************************************************************)
CostDen == 20 * 20 * 20 * 20 * 10

Scale(v, num, den) ==
    LET p == v.i * num
        g == ((p % den) * CostDen + v.f * num) \div den
    IN  [i |-> (p \div den) + (g \div CostDen), f |-> g % CostDen]

Growth_Truncated(baseCost, count) == [i |-> baseCost, f |-> 0]

(* PRICE_GROWTH_RATE = 1.15 = 23/20, DISCOUNT_RATE = 0.9 = 9/10 *)
RECURSIVE Growth(_, _)
Growth(baseCost, count) ==
    IF count = 0 THEN [i |-> baseCost, f |-> 0]
    ELSE Scale(Growth(baseCost, count - 1), 23, 20)

ExactFloor(baseCost, count, discounted) ==
    IF discounted THEN Scale(Growth(baseCost, count), 9, 10).i
    ELSE Growth(baseCost, count).i

(* <<id, count, discounted>> for which the exact product is an integer and *)
(* the binary64 product b.baseCost * growth * discount is the double just  *)
(* below it (1.15 is stored as 0x1.2666666666666p+0, below 1.15), so that  *)
(* std::floor returns one less; e.g. 100 * 1.15 = 114.99999999999999.      *)
(* Counts 0..4, every catalog building.                                    *)
Binary64RoundsBelow ==
    { <<1, 1, FALSE>>, <<3, 1, FALSE>>, <<3, 1, TRUE>>, <<3, 2, FALSE>>,
      <<3, 2, TRUE>>, <<4, 2, FALSE>>, <<5, 1, FALSE>>, <<5, 1, TRUE>>,
      <<5, 2, FALSE>>, <<5, 2, TRUE>>, <<6, 1, FALSE>>, <<6, 1, TRUE>>,
      <<6, 2, FALSE>>, <<6, 2, TRUE>>, <<6, 3, FALSE>> }

(* std::floor(b.baseCost * growth * discount) as binary64 evaluates it *)
Floor64(buildingId, count, discounted) ==
    ExactFloor(Buildings[buildingId + 1].baseCost, count, discounted)
      - (IF <<buildingId, count, discounted>> \in Binary64RoundsBelow
         THEN 1 ELSE 0)

CostOf_NoDiscount(counts, owned, buildingId) ==
    Floor64(buildingId, counts[buildingId + 1], FALSE)

CostOf(counts, owned, buildingId) ==
    Floor64(buildingId, counts[buildingId + 1], HasSkillIn(owned, "cheaper"))

getBuildingCost(buildingId) == CostOf(buildingCounts, ownedSkills, buildingId)

(***************************************************************************)
(* calculateIncomePerSec, in 1/RateUnits per second.                       *)
(* AUTO_CLICK_BONUS = 0.05 = 1/RateUnits; baseIncome is a whole number     *)
(* before the bonus, so the bonus is exact.                                *)
(***************************************************************************)
RECURSIVE SumIncome(_, _)
SumIncome(counts, i) ==
    IF i = 0 THEN 0
    ELSE SumIncome(counts, i - 1)
           + (IF i <= Len(counts) THEN Buildings[i].income * counts[i] ELSE 0)

IncomePerSec_NoBonus(counts, owned, multiplier) ==
    SumIncome(counts, NumBuildings) * RateUnits * multiplier

IncomePerSec(counts, owned, multiplier) ==
    LET baseIncome == SumIncome(counts, NumBuildings) * RateUnits
        withSkills == IF HasSkillIn(owned, "auto_click")
                      THEN baseIncome + (baseIncome \div RateUnits)
                      ELSE baseIncome
    IN  withSkills * multiplier

calculateIncomePerSec ==
    IncomePerSec(buildingCounts, ownedSkills, incomeMultiplier)

(***************************************************************************)
(* calculatePrestigePotential.  floor(sqrt(money / 1000000)) depends only  *)
(* on floor(money / 1000000), which is money.w \div 1000000.               *)
(***************************************************************************)
PrestigeThreshold == 1000000

RECURSIVE SqrtFrom(_, _)
SqrtFrom(p, x) == IF (p + 1) * (p + 1) > x THEN p ELSE SqrtFrom(p + 1, x)

PotentialOf_NoScale(m) == SqrtFrom(0, m.w)

(* The largest binary64 below the integer n.  It lies off the grid of      *)
(* 1/MoneyUnits: the record keeps its floor on the grid and marks it.      *)
JustBelow(n) == [w |-> n - 1, f |-> MoneyUnits - 1, pred |-> TRUE]

IsJustBelow(m, n) == "pred" \in DOMAIN m /\ m.w = n - 1

(* The roots p <= 46 for which, money being the largest binary64 below     *)
(* p * p * 1000000, the binary64 quotient money / 1000000.0 and its        *)
(* std::sqrt round to p exactly: floor then gives p, not p - 1.  Every     *)
(* other binary64 below p * p * 1000000, and every amount of the grid,     *)
(* gives the floor of the exact root.                                      *)
Binary64RoundsUp ==
    { 5, 9, 10, 11, 17, 18, 19, 20, 21, 22, 33, 34, 35, 36, 37, 38, 39, 40,
      41, 42, 43, 44, 45 }

(* static_cast<int>(std::floor(std::sqrt(money / 1000000.0))) *)
PotentialOf(m) ==
    IF Below(m, PrestigeThreshold) THEN 0
    ELSE LET p == SqrtFrom(0, m.w \div PrestigeThreshold)
         IN  IF /\ IsJustBelow(m, (p + 1) * (p + 1) * PrestigeThreshold)
                /\ (p + 1) \in Binary64RoundsUp
             THEN p + 1
             ELSE p

calculatePrestigePotential == PotentialOf(money)

(***************************************************************************)
(* Construction.                                                           *)
(***************************************************************************)
NoSkills == [s \in {} |-> FALSE]

Init ==
    /\ money = Whole(0)
    /\ neuralData = 0
    /\ buildingCounts = [i \in 1..NumBuildings |-> 0]
    /\ ownedSkills = NoSkills
    /\ totalClicks = 0
    /\ totalEarnings = Whole(0)
    /\ incomeMultiplier = 1
    /\ globalIncomePerSec \in UninitRates
    /\ call = [op |-> "GameEngine"]

(***************************************************************************)
(* addMoney(amount): the new money and totalEarnings.                      *)
(***************************************************************************)
addMoney_MoneyOnly(amount) ==
    /\ money' = Plus(money, amount)
    /\ totalEarnings' = totalEarnings

(* money += amount; totalEarnings += amount *)
addMoney(amount) ==
    /\ money' = Plus(money, amount)
    /\ totalEarnings' = Plus(totalEarnings, amount)

(* globalIncomePerSec * deltaTime, deltaTime a whole number of seconds *)
Accrued(rate, deltaTime) ==
    LET q == deltaTime \div RateUnits
        p == rate * (deltaTime % RateUnits)
    IN  Norm(rate * q + (p \div RateUnits), (p % RateUnits) * RateUnits)

Magnitude(n) == IF n < 0 THEN 0 - n ELSE n

(* the model's cap: the credit keeps totalEarnings within MaxEarnings *)
WithinCap(rate, deltaTime) ==
    rate > 0 =>
      /\ rate <= MaxEarnings \div ((Magnitude(deltaTime) \div RateUnits) + 1)
      /\ Magnitude(Plus(totalEarnings, Accrued(rate, deltaTime)).w)
            <= MaxEarnings

update(deltaTime) ==
    LET rate == calculateIncomePerSec IN
    /\ WithinCap(rate, deltaTime)
    /\ globalIncomePerSec' = rate
    /\ IF rate > 0
       THEN addMoney(Accrued(rate, deltaTime))
       ELSE UNCHANGED << money, totalEarnings >>
    /\ call' = [op |-> "update", deltaTime |-> deltaTime]
    /\ UNCHANGED << neuralData, buildingCounts, ownedSkills, totalClicks,
                    incomeMultiplier >>

ClickValue_Recomputed(rate) == Norm(0, MoneyUnits + calculateIncomePerSec)

(* 1 + globalIncomePerSec * 0.05, in 1/MoneyUnits *)
ClickValue(rate) == Norm(0, MoneyUnits + rate)

click ==
    /\ totalClicks < MaxClicks
    /\ Plus(totalEarnings, ClickValue(globalIncomePerSec)).w <= MaxEarnings
    /\ totalClicks' = totalClicks + 1
    /\ addMoney(ClickValue(globalIncomePerSec))
    /\ call' = [op |-> "click"]
    /\ UNCHANGED << neuralData, buildingCounts, ownedSkills,
                    incomeMultiplier, globalIncomePerSec >>

(***************************************************************************)
(* buyBuilding.                                                            *)
(***************************************************************************)
ValidId(buildingId) == ~(buildingId < 0 \/ buildingId >= NumBuildings)

CanAfford_AnyBalance(m, cost) == m.w >= 0

(* money >= cost *)
CanAfford(m, cost) == AtLeast(m, cost)

buyBuilding(buildingId) ==
    IF ~ValidId(buildingId)
    THEN /\ call' = [op |-> "buyBuilding", buildingId |-> buildingId,
                     ret |-> FALSE]
         /\ UNCHANGED << money, neuralData, buildingCounts, ownedSkills,
                         totalClicks, totalEarnings, incomeMultiplier,
                         globalIncomePerSec >>
    ELSE LET cost == getBuildingCost(buildingId) IN
         IF CanAfford(money, cost)
         THEN /\ buildingCounts[buildingId + 1] < MaxCount
              /\ money' = Minus(money, Whole(cost))
              /\ buildingCounts' =
                   [buildingCounts EXCEPT ![buildingId + 1] = @ + 1]
              /\ call' = [op |-> "buyBuilding", buildingId |-> buildingId,
                          ret |-> TRUE]
              /\ UNCHANGED << neuralData, ownedSkills, totalClicks,
                              totalEarnings, incomeMultiplier,
                              globalIncomePerSec >>
         ELSE /\ call' = [op |-> "buyBuilding", buildingId |-> buildingId,
                          ret |-> FALSE]
              /\ UNCHANGED << money, neuralData, buildingCounts, ownedSkills,
                              totalClicks, totalEarnings, incomeMultiplier,
                              globalIncomePerSec >>

(***************************************************************************)
(* buySkill.                                                               *)
(***************************************************************************)
(* std::map::operator[]: a missing key is inserted with the value false *)
Indexed(owned, skillId) ==
    IF skillId \in DOMAIN owned THEN owned ELSE owned @@ (skillId :> FALSE)

AlreadyOwned_Unchecked(owned, skillId) == FALSE

(* if (ownedSkills[skillId]) return false; read after the insertion *)
AlreadyOwned(owned, skillId) == owned[skillId]

Buyable_Strict(skillId, nd) ==
    {i \in 1..Len(Skills) : Skills[i].id = skillId /\ nd > Skills[i].cost}

(* the catalog positions at which the loop of buySkill buys *)
Buyable(skillId, nd) ==
    {i \in 1..Len(Skills) : Skills[i].id = skillId /\ nd >= Skills[i].cost}

FirstOf(S) == CHOOSE i \in S : \A j \in S : i <= j

AfterCost_Added(nd, cost) == nd + cost

(* neuralData -= skill.cost *)
AfterCost(nd, cost) == nd - cost

MarkOwned_Alone(owned, skillId) == (skillId :> TRUE)

(* ownedSkills[skillId] = true *)
MarkOwned(owned, skillId) == [owned EXCEPT ![skillId] = TRUE]

buySkill(skillId) ==
    LET owned == Indexed(ownedSkills, skillId) IN
    IF AlreadyOwned(owned, skillId)
    THEN /\ ownedSkills' = owned
         /\ call' = [op |-> "buySkill", skillId |-> skillId, ret |-> FALSE]
         /\ UNCHANGED << money, neuralData, buildingCounts, totalClicks,
                         totalEarnings, incomeMultiplier, globalIncomePerSec >>
    ELSE IF Buyable(skillId, neuralData) # {}
    THEN LET skill == Skills[FirstOf(Buyable(skillId, neuralData))] IN
         /\ neuralData' = AfterCost(neuralData, skill.cost)
         /\ ownedSkills' = MarkOwned(owned, skillId)
         /\ call' = [op |-> "buySkill", skillId |-> skillId, ret |-> TRUE]
         /\ UNCHANGED << money, buildingCounts, totalClicks, totalEarnings,
                         incomeMultiplier, globalIncomePerSec >>
    ELSE /\ ownedSkills' = owned
         /\ call' = [op |-> "buySkill", skillId |-> skillId, ret |-> FALSE]
         /\ UNCHANGED << money, neuralData, buildingCounts, totalClicks,
                         totalEarnings, incomeMultiplier, globalIncomePerSec >>

(***************************************************************************)
(* doPrestige.  The call record keeps the local variable potential.        *)
(***************************************************************************)
TakesEffect_Always(potential) == TRUE

(* if (potential > 0) *)
TakesEffect(potential) == potential > 0

Filled_Unchanged(counts) == counts

(* std::fill(buildingCounts.begin(), buildingCounts.end(), 0) *)
Filled(counts) == [i \in DOMAIN counts |-> 0]

Awarded_Overwrite(data, potential) == potential

(* neuralData += potential *)
Awarded(data, potential) == data + potential

doPrestige ==
    LET potential == calculatePrestigePotential IN
    /\ IF TakesEffect(potential)
       THEN /\ neuralData' = Awarded(neuralData, potential)
            /\ money' = Whole(0)
            /\ buildingCounts' = Filled(buildingCounts)
            /\ incomeMultiplier' = 1
       ELSE UNCHANGED << neuralData, money, buildingCounts, incomeMultiplier >>
    /\ call' = [op |-> "doPrestige", potential |-> potential]
    /\ UNCHANGED << ownedSkills, totalClicks, totalEarnings,
                    globalIncomePerSec >>

Next ==
    \/ click
    \/ \E deltaTime \in DeltaTimes : update(deltaTime)
    \/ \E buildingId \in BuildingInputs : buyBuilding(buildingId)
    \/ \E skillId \in SkillInputs : buySkill(skillId)
    \/ doPrestige

Spec == Init /\ [][Next]_vars

(***************************************************************************)
(* Properties.  A step is identified by the call it records: call' names   *)
(* the operation, its argument, and its return value.                      *)
(***************************************************************************)
AllSkillIds == CatalogSkillIds \cup SkillInputs

SameSkills == \A t \in AllSkillIds : HasSkillIn(ownedSkills', t) = hasSkill(t)

SkillCost(skillId) ==
    Skills[CHOOSE i \in 1..Len(Skills) : Skills[i].id = skillId].cost

(* C1: in every reachable state both currency balances are non-negative:   *)
(* money >= 0 and neuralData >= 0.                                         *)
C1_BalancesNonNegative == money.w >= 0 /\ neuralData >= 0

(* C2: a buyBuilding(id) with id outside [0, number of buildings), or with *)
(* a valid id and money < getBuildingCost(id), returns false and leaves    *)
(* money and every buildingCounts[i] as they were.                         *)
C2_DeclinedPurchaseChangesNothing ==
    [][ ( /\ call'.op = "buyBuilding"
          /\ \/ ~ValidId(call'.buildingId)
             \/ Below(money, getBuildingCost(call'.buildingId)) )
        => ( /\ call'.ret = FALSE
             /\ money' = money
             /\ buildingCounts' = buildingCounts ) ]_vars

(* a purchase of building 0 was declined for lack of funds while the       *)
(* player held some money                                                  *)
C2_Witness ==
    /\ call.op = "buyBuilding"
    /\ call.buildingId = 0
    /\ call.ret = FALSE
    /\ money.w >= 1
    /\ Below(money, getBuildingCost(0))

C4_SuccessfulPrestige ==
    [][ ( call'.op = "doPrestige" /\ calculatePrestigePotential > 0 )
        => ( /\ money' = Whole(0)
             /\ \A i \in DOMAIN buildingCounts' : buildingCounts'[i] = 0
             /\ incomeMultiplier' = 1
             /\ neuralData' = neuralData + calculatePrestigePotential
             /\ \A t \in AllSkillIds :
                    hasSkill(t) => HasSkillIn(ownedSkills', t) ) ]_vars

(* a prestige took effect while a skill was owned *)
C4_Witness ==
    /\ call.op = "doPrestige"
    /\ call.potential > 0
    /\ money = Whole(0)
    /\ neuralData >= call.potential
    /\ \E t \in AllSkillIds : hasSkill(t)

(* C5: a doPrestige called with money < 1,000,000 changes nothing: money,  *)
(* neuralData, every buildingCounts[i], incomeMultiplier, the owned        *)
(* skills, totalClicks and totalEarnings are as before.                    *)
C5_PrestigeBelowThresholdIsNoOp ==
    [][ ( call'.op = "doPrestige" /\ Below(money, PrestigeThreshold) )
        => ( /\ money' = money
             /\ neuralData' = neuralData
             /\ buildingCounts' = buildingCounts
             /\ incomeMultiplier' = incomeMultiplier
             /\ ownedSkills' = ownedSkills
             /\ totalClicks' = totalClicks
             /\ totalEarnings' = totalEarnings ) ]_vars

(* a prestige was declined in a state that had money, neural data, a skill *)
(* and a building to lose                                                  *)
C5_Witness ==
    /\ call.op = "doPrestige"
    /\ call.potential = 0
    /\ money.w >= 1
    /\ neuralData >= 1
    /\ \E t \in AllSkillIds : hasSkill(t)
    /\ \E i \in DOMAIN buildingCounts : buildingCounts[i] > 0

(* C6: once buySkill(s) has returned true, s is owned, stays owned over    *)
(* every later operation, and every later buySkill(s) returns false and    *)
(* leaves neuralData unchanged, also when neuralData has meanwhile grown   *)
(* to the skill's cost or more: the cost is deducted at most once.         *)
C6_SkillBoughtAtMostOnce ==
    [][ \A s \in AllSkillIds :
          /\ ( call'.op = "buySkill" /\ call'.skillId = s /\ call'.ret = TRUE )
             => ( ~hasSkill(s) /\ HasSkillIn(ownedSkills', s) )
          /\ hasSkill(s) => HasSkillIn(ownedSkills', s)
          /\ ( hasSkill(s) /\ call'.op = "buySkill" /\ call'.skillId = s )
             => ( call'.ret = FALSE /\ neuralData' = neuralData ) ]_vars

(* an owned skill was asked for again with enough neuralData to pay for it *)
(* a second time, and the call returned false                              *)
C6_Witness ==
    /\ call.op = "buySkill"
    /\ call.ret = FALSE
    /\ hasSkill(call.skillId)
    /\ neuralData >= SkillCost(call.skillId)

(* C7: a buySkill(s) with s already owned, s not in the catalog, or        *)
(* neuralData < cost returns false and leaves neuralData and hasSkill(t),  *)
(* for every t, unchanged; with s in the catalog, not owned and            *)
(* neuralData >= cost it returns true, deducts exactly cost and makes      *)
(* hasSkill(s) true.                                                       *)
C7_BuySkillOutcome ==
    [][ call'.op = "buySkill" =>
          LET s == call'.skillId
              declined == \/ hasSkill(s)
                          \/ s \notin CatalogSkillIds
                          \/ neuralData < SkillCost(s)
          IN  IF declined
              THEN /\ call'.ret = FALSE
                   /\ neuralData' = neuralData
                   /\ SameSkills
              ELSE /\ call'.ret = TRUE
                   /\ neuralData' = neuralData - SkillCost(s)
                   /\ HasSkillIn(ownedSkills', s) ]_vars

(* an id that is not in the catalog was declined while the player held     *)
(* neuralData; the lookup left its key in the map, not owned               *)
C7_Witness ==
    /\ call.op = "buySkill"
    /\ call.ret = FALSE
    /\ call.skillId \notin CatalogSkillIds
    /\ call.skillId \in DOMAIN ownedSkills
    /\ ~hasSkill(call.skillId)
    /\ neuralData >= 1

(* C8: once hasSkill(s) is true it is true in every later state, whatever  *)
(* operation follows.                                                      *)
C8_SkillsArePermanent ==
    [][ \A s \in AllSkillIds : hasSkill(s) => HasSkillIn(ownedSkills', s) ]_vars

(* two skills are owned, the first kept over the purchase of the second    *)
C8_Witness ==
    /\ hasSkill("auto_click")
    /\ hasSkill("cheaper")
    /\ call.op = "buySkill"
    /\ call.ret = TRUE

(* C9: neuralData increases only in a doPrestige with potential > 0;       *)
(* click, advance and buyBuilding leave it exactly unchanged, and buySkill *)
(* and a doPrestige without effect never increase it.                      *)
C9_NeuralDataOnlyFromPrestige ==
    [][ /\ neuralData' > neuralData
           => ( call'.op = "doPrestige" /\ calculatePrestigePotential > 0 )
        /\ call'.op \in {"click", "update", "buyBuilding"}
           => neuralData' = neuralData ]_vars

(* the first prestige that took effect: all neuralData comes from it *)
C9_Witness ==
    /\ call.op = "doPrestige"
    /\ call.potential > 0
    /\ neuralData = call.potential
    /\ \A t \in AllSkillIds : ~hasSkill(t)

(* C10: across any single operation other than a doPrestige with           *)
(* potential > 0 no buildingCounts[i] decreases and incomeMultiplier does  *)
(* not change; buildingCounts always has one entry per catalog building.   *)
C10_ResetOnlyByPrestige ==
    [][ /\ Len(buildingCounts) = NumBuildings
        /\ Len(buildingCounts') = NumBuildings
        /\ DOMAIN buildingCounts' = 1..NumBuildings
        /\ ~( call'.op = "doPrestige" /\ calculatePrestigePotential > 0 )
           => ( /\ \A i \in 1..NumBuildings :
                      buildingCounts'[i] >= buildingCounts[i]
                /\ incomeMultiplier' = incomeMultiplier ) ]_vars

(* a building is still held after a doPrestige that had no effect *)
C10_Witness ==
    /\ call.op = "doPrestige"
    /\ call.potential = 0
    /\ buildingCounts[1] > 0
    /\ \A t \in AllSkillIds : ~hasSkill(t)

(***************************************************************************)
(* getBuildingCost as a function of the fields it reads.  CostInit draws   *)
(* buildingCounts (one building with 0..MaxOwned units) and ownedSkills    *)
(* (with or without "cheaper"); the other fields keep their construction   *)
(* values, which getBuildingCost does not read.  The query changes no      *)
(* field; the call record keeps its argument and result.                   *)
(***************************************************************************)
CountsWith(buildingId, count) ==
    [i \in 1..NumBuildings |-> IF i = buildingId + 1 THEN count ELSE 0]

CostInit ==
    /\ money = Whole(0)
    /\ neuralData = 0
    /\ buildingCounts \in
         {CountsWith(b, n) : b \in 0..(NumBuildings - 1), n \in 0..MaxOwned}
    /\ ownedSkills \in {NoSkills, ("cheaper" :> TRUE)}
    /\ totalClicks = 0
    /\ totalEarnings = Whole(0)
    /\ incomeMultiplier = 1
    /\ globalIncomePerSec = 0
    /\ call = [op |-> "GameEngine"]

getBuildingCostCall(buildingId) ==
    /\ call' = [op |-> "getBuildingCost", buildingId |-> buildingId,
                ret |-> getBuildingCost(buildingId)]
    /\ UNCHANGED << money, neuralData, buildingCounts, ownedSkills,
                    totalClicks, totalEarnings, incomeMultiplier,
                    globalIncomePerSec >>

CostNext ==
    \E buildingId \in 0..(NumBuildings - 1) : getBuildingCostCall(buildingId)

CostSpec == CostInit /\ [][CostNext]_vars

(* C11: for every building id and owned count n, with "cheaper" owned or   *)
(* not, getBuildingCost at count n + 1 is strictly greater than            *)
(* getBuildingCost at count n.                                             *)
C11_CostStrictlyIncreasing ==
    call.op = "getBuildingCost" =>
      LET id == call.buildingId
          next == [buildingCounts EXCEPT ![id + 1] = @ + 1]
      IN  CostOf(next, ownedSkills, id) > call.ret

(* the discounted cost of the last building was asked with MaxOwned units  *)
(* owned: 29756249, below the 34219687 of the next unit                    *)
C11_Witness ==
    /\ call.op = "getBuildingCost"
    /\ call.buildingId = NumBuildings - 1
    /\ hasSkill("cheaper")
    /\ buildingCounts[NumBuildings] = 2
    /\ call.ret = 29756249
    /\ CostOf(CountsWith(NumBuildings - 1, 3), ownedSkills, NumBuildings - 1)
         = 34219687

(***************************************************************************)
(* Properties of the statistics, of update and of click (under Spec).      *)
(***************************************************************************)
(* a <= b, two amounts *)
Leq(a, b) == a.w < b.w \/ (a.w = b.w /\ a.f <= b.f)

(* C12: totalClicks and totalEarnings are never negative and no operation  *)
(* decreases either of them.                                               *)
C12_StatisticsMonotonic ==
    [][ /\ totalClicks >= 0
        /\ totalClicks' >= totalClicks
        /\ Leq(Whole(0), totalEarnings)
        /\ Leq(totalEarnings, totalEarnings') ]_vars

(* the income rate of the source text: sum of income * count over the      *)
(* catalog, times 1.05 with "auto_click", times incomeMultiplier, in       *)
(* 1/RateUnits per second                                                  *)
StatedRate ==
    LET sum == Buildings[1].income * buildingCounts[1]
                 + Buildings[2].income * buildingCounts[2]
                 + Buildings[3].income * buildingCounts[3]
                 + Buildings[4].income * buildingCounts[4]
                 + Buildings[5].income * buildingCounts[5]
                 + Buildings[6].income * buildingCounts[6]
                 + Buildings[7].income * buildingCounts[7]
    IN  (IF hasSkill("auto_click") THEN 21 * sum ELSE 20 * sum)
          * incomeMultiplier

(* C13: advance(deltaTime), deltaTime >= 0, stores the rate computed from  *)
(* the state at the call as the cached incomePerSec, adds exactly          *)
(* rate * deltaTime to money and to totalEarnings when rate > 0, leaves    *)
(* both unchanged when rate is 0, and changes neither buildingCounts nor   *)
(* neuralData nor the skills.                                              *)
C13_AdvanceCreditsCurrentRate ==
    [][ ( call'.op = "update" /\ call'.deltaTime >= 0 )
        => ( /\ globalIncomePerSec' = StatedRate
             /\ IF StatedRate > 0
                THEN /\ money' =
                          Plus(money, Accrued(StatedRate, call'.deltaTime))
                     /\ totalEarnings' =
                          Plus(totalEarnings,
                               Accrued(StatedRate, call'.deltaTime))
                ELSE /\ money' = money
                     /\ totalEarnings' = totalEarnings
             /\ buildingCounts' = buildingCounts
             /\ neuralData' = neuralData
             /\ ownedSkills' = ownedSkills ) ]_vars

(* an advance of BigDelta seconds with one Data Miner and "auto_click",    *)
(* both bought after the previous advance, credited 1.05 * BigDelta        *)
C13_Witness ==
    /\ call.op = "update"
    /\ call.deltaTime = BigDelta
    /\ hasSkill("auto_click")
    /\ buildingCounts = CountsWith(0, 1)
    /\ globalIncomePerSec = 21
    /\ money.w >= 126000000

(* C14: click adds 1 to totalClicks and exactly 1 + 0.05 * r to money and  *)
(* to totalEarnings, r being the cached rate, which only advance changes:  *)
(* a purchase or a prestige between the last advance and the click does    *)
(* not change r, and so not the amount of the click.                       *)
C14_ClickUsesCachedRate ==
    [][ /\ call'.op = "click"
           => ( /\ totalClicks' = totalClicks + 1
                /\ money' = Plus(money, Norm(0, MoneyUnits + globalIncomePerSec))
                /\ totalEarnings' =
                     Plus(totalEarnings, Norm(0, MoneyUnits + globalIncomePerSec)) )
        /\ call'.op # "update" => globalIncomePerSec' = globalIncomePerSec
      ]_vars

(* the first click after a prestige: the rate stored by the last advance   *)
(* is positive, the rate of the current state is 0, and the click credited *)
(* 1 + 0.05 * (stored rate)                                                *)
C14_Witness ==
    /\ call.op = "click"
    /\ globalIncomePerSec > 0
    /\ calculateIncomePerSec = 0
    /\ money = Norm(0, MoneyUnits + globalIncomePerSec)
    /\ neuralData > 0

(***************************************************************************)
(* calculatePrestigePotential as a function of money: an engine with one   *)
(* Data Miner whose money, credited by update, lies at, next to, or one    *)
(* binary64 below p * p * 1000000.                                         *)
(***************************************************************************)
MoneyNear(n) ==
    { Norm(n - 1, 0), Norm(n - 1, MoneyUnits - 1), JustBelow(n),
      Whole(n), Norm(n, 1), Norm(n + 1, 0) }

PotentialInit ==
    /\ money \in UNION { MoneyNear(p * p * PrestigeThreshold) : p \in 1..MaxRoot }
                   \cup { Whole(0), Whole(2 * PrestigeThreshold) }
    /\ neuralData = 0
    /\ buildingCounts = CountsWith(0, 1)
    /\ ownedSkills = NoSkills
    /\ totalClicks = Buildings[1].baseCost
    /\ totalEarnings = Plus(Whole(Buildings[1].baseCost), [w |-> money.w, f |-> money.f])
    /\ incomeMultiplier = 1
    /\ globalIncomePerSec = RateUnits
    /\ call = [op |-> "update"]

calculatePrestigePotentialCall ==
    /\ call' = [op |-> "calculatePrestigePotential",
                ret |-> calculatePrestigePotential]
    /\ UNCHANGED << money, neuralData, buildingCounts, ownedSkills,
                    totalClicks, totalEarnings, incomeMultiplier,
                    globalIncomePerSec >>

PotentialNext == calculatePrestigePotentialCall \/ doPrestige

PotentialSpec == PotentialInit /\ [][PotentialNext]_vars

(* C15: calculatePrestigePotential returns 0 when money < 1,000,000 and    *)
(* otherwise the largest integer p with p * p * 1,000,000 <= money; it is  *)
(* positive exactly when money >= 1,000,000, and money = 2,000,000 gives   *)
(* potential 1.                                                            *)
C15_PotentialIsIntegerRoot ==
    call.op = "calculatePrestigePotential" =>
      LET p == call.ret IN
      /\ Below(money, PrestigeThreshold) => p = 0
      /\ AtLeast(money, PrestigeThreshold) =>
           /\ AtLeast(money, p * p * PrestigeThreshold)
           /\ Below(money, (p + 1) * (p + 1) * PrestigeThreshold)
      /\ p > 0 <=> AtLeast(money, PrestigeThreshold)
      /\ money = Whole(2 * PrestigeThreshold) => p = 1

(***************************************************************************)
(* The engine driven with negative deltaTime as well: update takes any     *)
(* double.                                                                 *)
(***************************************************************************)
SignedDeltaTimes == DeltaTimes \cup {0 - BigDelta}

NextSigned ==
    \/ click
    \/ \E deltaTime \in SignedDeltaTimes : update(deltaTime)
    \/ \E buildingId \in BuildingInputs : buyBuilding(buildingId)
    \/ \E skillId \in SkillInputs : buySkill(skillId)
    \/ doPrestige

SpecSigned == Init /\ [][NextSigned]_vars

(* C16: update(deltaTime) with deltaTime < 0 is rejected: it leaves money  *)
(* and totalEarnings unchanged, also when the income rate is positive.     *)
C16_NegativeAdvanceRejected ==
    [][ ( call'.op = "update" /\ call'.deltaTime < 0 )
        => ( money' = money /\ totalEarnings' = totalEarnings ) ]_vars

(***************************************************************************)
(* The fresh engine, the two currencies, and progress by clicking (under   *)
(* Spec).                                                                  *)
(***************************************************************************)
(* C17: in a freshly constructed engine the cached income rate is defined  *)
(* and equal to 0, and a click issued before any update takes money from 0 *)
(* to exactly 1.                                                           *)
C17_FreshEngineRateIsZero ==
    [][ /\ call.op = "GameEngine" => globalIncomePerSec = 0
        /\ ( call.op = "GameEngine" /\ call'.op = "click" )
             => ( money = Whole(0) /\ money' = Whole(1) ) ]_vars

(* neuralData plus the catalog costs of the owned skills *)
RECURSIVE OwnedCost(_)
OwnedCost(i) ==
    IF i = 0 THEN 0
    ELSE OwnedCost(i - 1)
           + (IF hasSkill(Skills[i].id) THEN Skills[i].cost ELSE 0)

Banked == neuralData + OwnedCost(Len(Skills))

(* C18: neuralData plus the costs of the owned skills is 0 at construction *)
(* and changes only by a successful doPrestige, which adds its potential:  *)
(* it always equals the sum of the potentials awarded so far.              *)
C18_NeuralDataConserved ==
    [][ /\ call.op = "GameEngine" => Banked = 0
        /\ Banked' = Banked
             + (IF call'.op = "doPrestige" /\ call'.potential > 0
                THEN call'.potential ELSE 0) ]_vars

(* a second prestige, awarding 11, with "auto_click" (5) bought out of the  *)
(* 9 awarded by the first: 15 + 5 = 9 + 11                                  *)
C18_Witness ==
    /\ call.op = "doPrestige"
    /\ call.potential = 11
    /\ hasSkill("auto_click")
    /\ neuralData = 15
    /\ Banked = 20

(* C19: money <= totalEarnings in every reachable state.                   *)
C19_MoneyAtMostEarnings == Leq(money, totalEarnings)

(* after a purchase and a prestige money is 0, far below the earnings *)
C19_Witness ==
    /\ call.op = "doPrestige"
    /\ money = Whole(0)
    /\ neuralData > 0
    /\ totalEarnings.w >= BigDelta

(* C20: every click raises money by at least 1, so that clicking alone     *)
(* brings money up to getBuildingCost(0) from any state.                   *)
C20_EveryClickRaisesMoney ==
    [][ call'.op = "click" => Leq(Plus(money, Whole(1)), money') ]_vars

=============================================================================
